---- MODULE Spec2Model ----
(***************************************************************************)
(* Model of config/update_keymap_comments.py: the tool that regenerates    *)
(* the box-drawing comment diagram above each layer of a ZMK keymap file.  *)
(*                                                                         *)
(* Text is modelled character by character: a Python str is a sequence of  *)
(* one-character strings.  The non-ASCII characters of the source are      *)
(* written with two-letter names:                                          *)
(*   "tl" U+250F  "hz" U+2501  "tj" U+2533  "tr" U+2513  "vt" U+2503       *)
(*   "lj" U+2523  "cr" U+254B  "rj" U+252B  "bl" U+2517  "bj" U+253B       *)
(*   "br" U+251B  "A:" U+00C4  "O:" U+00D6  "U:" U+00DC  "^^" U+02C6       *)
(*   "bq" U+0060                                                           *)
(***************************************************************************)
EXTENDS Integers, Sequences, FiniteSets, TLC

VARIABLES
  \* update_keymap_file
  content, layers, li, new_content, offset, pc, run, firstOut, edits,
  \* parse_binding
  binding, label, head, args, ppc,
  \* pad_label
  rawLabel, padded, dpc,
  \* extract_bindings_from_layer
  directives, layerText, all_bindings, rows, epc,
  \* create_comment_box
  labels, lines, bpc

fileVars == <<content, layers, li, new_content, offset, pc, run, firstOut, edits>>
parseVars == <<binding, label, head, args, ppc>>
padVars == <<rawLabel, padded, dpc>>
extractVars == <<directives, layerText, all_bindings, rows, epc>>
boxVars == <<labels, lines, bpc>>
vars == <<fileVars, parseVars, padVars, extractVars, boxVars>>

----------------------------------------------------------------------------
(* Bounds of the model. *)

MaxArgs == 3
MaxLabelLen == 11
MaxDirectives == 40
MaxRows == 5
MaxItems == 3

----------------------------------------------------------------------------
(* Python str primitives. *)

Rep(c, n) == [i \in 1..n |-> c]

Min(S) == CHOOSE x \in S : \A y \in S : x <= y

Max(S) == CHOOSE x \in S : \A y \in S : y <= x

\* The elements of a finite set of integers in increasing order.
RECURSIVE SortedSeq(_)
SortedSeq(S) == IF S = {} THEN <<>> ELSE <<Min(S)>> \o SortedSeq(S \ {Min(S)})

\* s[a:b] of Python, with 0-based a, b already clamped to 0..len(s).
Slice(s, a, b) == SubSeq(s, a + 1, b)

\* Whitespace as str.strip(), str.split() and the regex class \s see it.
IsSpace(c) == c \in {" ", "\t", "\n", "\r", "\f"}

\* The regex class \w.
IsWord(c) ==
  c \in {"a", "b", "c", "d", "e", "f", "g", "h", "i", "j", "k", "l", "m",
         "n", "o", "p", "q", "r", "s", "t", "u", "v", "w", "x", "y", "z",
         "A", "B", "C", "D", "E", "F", "G", "H", "I", "J", "K", "L", "M",
         "N", "O", "P", "Q", "R", "S", "T", "U", "V", "W", "X", "Y", "Z",
         "0", "1", "2", "3", "4", "5", "6", "7", "8", "9", "_",
         "A:", "O:", "U:", "^^"}

\* Whether p occurs in s at 0-based position i.
MatchAt(s, p, i) ==
  /\ i >= 0
  /\ i + Len(p) <= Len(s)
  /\ \A k \in 1..Len(p) : s[i + k] = p[k]

StartsWith(s, p) == MatchAt(s, p, 0)

\* s.find(p, from): the first 0-based position >= from where p occurs, or -1.
\* The positions are tried 64 at a time, those where the first character of p
\* stands; p is not empty.
RECURSIVE Find(_, _, _)
Find(s, p, from) ==
  IF from > Len(s) - Len(p) THEN -1
  ELSE LET last == IF from + 63 < Len(s) - Len(p) THEN from + 63 ELSE Len(s) - Len(p)
           S == {i \in from..last : s[i + 1] = p[1] /\ MatchAt(s, p, i)}
       IN  IF S # {} THEN Min(S) ELSE Find(s, p, last + 1)

\* s.rfind(p, 0, to): the last 0-based position where p occurs inside s[0:to],
\* or -1.  The positions are tried 64 at a time, from the end; p is not empty.
RECURSIVE RFind(_, _, _)
RFind(s, p, to) ==
  IF to - Len(p) < 0 THEN -1
  ELSE LET first == IF to - Len(p) - 63 > 0 THEN to - Len(p) - 63 ELSE 0
           S == {i \in first..(to - Len(p)) : s[i + 1] = p[1] /\ MatchAt(s, p, i)}
       IN  IF S # {} THEN Max(S) ELSE RFind(s, p, first + Len(p) - 1)

Contains(s, c) == \E i \in 1..Len(s) : s[i] = c

\* The regex \s* from 0-based position i: the position of the next non-space
\* character, len(s) if there is none.
RECURSIVE SkipSpace(_, _)
SkipSpace(s, i) == IF i < Len(s) /\ IsSpace(s[i + 1]) THEN SkipSpace(s, i + 1) ELSE i

\* The same from the end: the length of s without its trailing whitespace.
RECURSIVE DropSpace(_, _)
DropSpace(s, n) == IF n > 0 /\ IsSpace(s[n]) THEN DropSpace(s, n - 1) ELSE n

Strip(s) == SubSeq(s, SkipSpace(s, 0) + 1, DropSpace(s, Len(s)))

\* s.split(): the maximal runs of non-whitespace, in order.
Split(s) ==
  LET starts == {i \in 1..Len(s) : ~IsSpace(s[i]) /\ (i = 1 \/ IsSpace(s[i - 1]))}
      endOf(i) == Min({j \in i..Len(s) : j = Len(s) \/ IsSpace(s[IF j = Len(s) THEN j ELSE j + 1])})
      st == SortedSeq(starts)
  IN  [k \in 1..Len(st) |-> SubSeq(s, st[k], endOf(st[k]))]

\* sep.join(parts).
RECURSIVE Join(_, _)
Join(parts, sep) ==
  IF Len(parts) = 0 THEN <<>>
  ELSE IF Len(parts) = 1 THEN parts[1]
  ELSE parts[1] \o sep \o Join(Tail(parts), sep)

\* The concatenation of a sequence of sequences.
RECURSIVE Concat(_)
Concat(ss) == IF Len(ss) = 0 THEN <<>> ELSE ss[1] \o Concat(Tail(ss))

----------------------------------------------------------------------------
(* KEY_MAPPINGS: key code -> display name, as pairs <<key, name>>. *)

KEY_MAPPINGS ==
  { << <<"Q">>, <<"Q">> >>,
    << <<"W">>, <<"W">> >>,
    << <<"E">>, <<"E">> >>,
    << <<"R">>, <<"R">> >>,
    << <<"T">>, <<"T">> >>,
    << <<"Y">>, <<"Y">> >>,
    << <<"U">>, <<"U">> >>,
    << <<"I">>, <<"I">> >>,
    << <<"O">>, <<"O">> >>,
    << <<"P">>, <<"P">> >>,
    << <<"A">>, <<"A">> >>,
    << <<"S">>, <<"S">> >>,
    << <<"D">>, <<"D">> >>,
    << <<"F">>, <<"F">> >>,
    << <<"G">>, <<"G">> >>,
    << <<"H">>, <<"H">> >>,
    << <<"J">>, <<"J">> >>,
    << <<"K">>, <<"K">> >>,
    << <<"L">>, <<"L">> >>,
    << <<"Z">>, <<"Z">> >>,
    << <<"X">>, <<"X">> >>,
    << <<"C">>, <<"C">> >>,
    << <<"V">>, <<"V">> >>,
    << <<"B">>, <<"B">> >>,
    << <<"N">>, <<"N">> >>,
    << <<"M">>, <<"M">> >>,
    << <<"N", "0">>, <<"0">> >>,
    << <<"N", "1">>, <<"1">> >>,
    << <<"N", "2">>, <<"2">> >>,
    << <<"N", "3">>, <<"3">> >>,
    << <<"N", "4">>, <<"4">> >>,
    << <<"N", "5">>, <<"5">> >>,
    << <<"N", "6">>, <<"6">> >>,
    << <<"N", "7">>, <<"7">> >>,
    << <<"N", "8">>, <<"8">> >>,
    << <<"N", "9">>, <<"9">> >>,
    << <<"L", "S", "H", "F", "T">>, <<"S", "H", "I", "F", "T">> >>,
    << <<"R", "S", "H", "F", "T">>, <<"S", "H", "I", "F", "T">> >>,
    << <<"L", "S", "H", "I", "F", "T">>, <<"S", "H", "I", "F", "T">> >>,
    << <<"R", "S", "H", "I", "F", "T">>, <<"S", "H", "I", "F", "T">> >>,
    << <<"L", "C", "T", "R", "L">>, <<"C", "T", "R", "L">> >>,
    << <<"R", "C", "T", "R", "L">>, <<"C", "T", "R", "L">> >>,
    << <<"L", "C", "O", "N", "T", "R", "O", "L">>, <<"C", "T", "R", "L">> >>,
    << <<"R", "C", "O", "N", "T", "R", "O", "L">>, <<"C", "T", "R", "L">> >>,
    << <<"L", "A", "L", "T">>, <<"A", "L", "T">> >>,
    << <<"R", "A", "L", "T">>, <<"A", "L", "T">> >>,
    << <<"L", "G", "U", "I">>, <<"G", "U", "I">> >>,
    << <<"R", "G", "U", "I">>, <<"G", "U", "I">> >>,
    << <<"S", "P", "A", "C", "E">>, <<"S", "P", "C">> >>,
    << <<"S", "P", "C">>, <<"S", "P", "C">> >>,
    << <<"E", "N", "T", "E", "R">>, <<"E", "N", "T", "E", "R">> >>,
    << <<"R", "E", "T">>, <<"R", "E", "T">> >>,
    << <<"T", "A", "B">>, <<"T", "A", "B">> >>,
    << <<"B", "S", "P", "C">>, <<"B", "S", "P", "C">> >>,
    << <<"B", "A", "C", "K", "S", "P", "A", "C", "E">>, <<"B", "S", "P", "C">> >>,
    << <<"D", "E", "L">>, <<"D", "E", "L">> >>,
    << <<"D", "E", "L", "E", "T", "E">>, <<"D", "E", "L">> >>,
    << <<"E", "S", "C">>, <<"E", "S", "C">> >>,
    << <<"E", "S", "C", "A", "P", "E">>, <<"E", "S", "C">> >>,
    << <<"S", "E", "M", "I">>, <<";">> >>,
    << <<"C", "O", "M", "M", "A">>, <<",">> >>,
    << <<"D", "O", "T">>, <<".">> >>,
    << <<"F", "S", "L", "H">>, <<"/">> >>,
    << <<"B", "S", "L", "H">>, <<"\\">> >>,
    << <<"E", "X", "C", "L">>, <<"!">> >>,
    << <<"A", "T">>, <<"@">> >>,
    << <<"H", "A", "S", "H">>, <<"#">> >>,
    << <<"D", "L", "L", "R">>, <<"$">> >>,
    << <<"P", "R", "C", "N", "T">>, <<"%">> >>,
    << <<"C", "A", "R", "E", "T">>, <<"^^">> >>,
    << <<"A", "M", "P", "S">>, <<"&">> >>,
    << <<"S", "T", "A", "R">>, <<"*">> >>,
    << <<"L", "P", "A", "R">>, <<"(">> >>,
    << <<"R", "P", "A", "R">>, <<")">> >>,
    << <<"L", "B", "R", "C">>, <<"{">> >>,
    << <<"R", "B", "R", "C">>, <<"}">> >>,
    << <<"L", "B", "K", "T">>, <<"[">> >>,
    << <<"R", "B", "K", "T">>, <<"]">> >>,
    << <<"S", "Q", "T">>, <<"'">> >>,
    << <<"D", "Q", "T">>, <<"\"">> >>,
    << <<"G", "R", "A", "V", "E">>, <<"bq">> >>,
    << <<"T", "I", "L", "D", "E">>, <<"~">> >>,
    << <<"M", "I", "N", "U", "S">>, <<"-">> >>,
    << <<"E", "Q", "U", "A", "L">>, <<"=">> >>,
    << <<"P", "L", "U", "S">>, <<"+">> >>,
    << <<"U", "N", "D", "E", "R">>, <<"_">> >>,
    << <<"L", "E", "F", "T">>, <<"L", "E", "F", "T">> >>,
    << <<"R", "I", "G", "H", "T">>, <<"R", "I", "G", "H", "T">> >>,
    << <<"U", "P">>, <<"U", "P">> >>,
    << <<"D", "O", "W", "N">>, <<"D", "O", "W", "N">> >>,
    << <<"P", "G", "_", "U", "P">>, <<"P", " ", "U", "P">> >>,
    << <<"P", "G", "_", "D", "N">>, <<"P", " ", "D", "O", "W", "N">> >>,
    << <<"P", "G", "U", "P">>, <<"P", " ", "U", "P">> >>,
    << <<"P", "G", "D", "N">>, <<"P", " ", "D", "O", "W", "N">> >>,
    << <<"H", "O", "M", "E">>, <<"H", "O", "M", "E">> >>,
    << <<"E", "N", "D">>, <<"E", "N", "D">> >>,
    << <<"F", "1">>, <<"F", "1">> >>,
    << <<"F", "2">>, <<"F", "2">> >>,
    << <<"F", "3">>, <<"F", "3">> >>,
    << <<"F", "4">>, <<"F", "4">> >>,
    << <<"F", "5">>, <<"F", "5">> >>,
    << <<"F", "6">>, <<"F", "6">> >>,
    << <<"F", "7">>, <<"F", "7">> >>,
    << <<"F", "8">>, <<"F", "8">> >>,
    << <<"F", "9">>, <<"F", "9">> >>,
    << <<"F", "1", "0">>, <<"F", "1", "0">> >>,
    << <<"F", "1", "1">>, <<"F", "1", "1">> >>,
    << <<"F", "1", "2">>, <<"F", "1", "2">> >>,
    << <<"C", "A", "P", "S">>, <<"C", " ", "L", "O", "C", "K">> >>,
    << <<"C", "A", "P", "S", "L", "O", "C", "K">>, <<"C", " ", "L", "O", "C", "K">> >>,
    << <<"K", "P", "_", "P", "L", "U", "S">>, <<"+">> >>,
    << <<"K", "P", "_", "M", "I", "N", "U", "S">>, <<"-">> >>,
    << <<"K", "P", "_", "M", "U", "L", "T", "I", "P", "L", "Y">>, <<"*">> >>,
    << <<"K", "P", "_", "D", "I", "V", "I", "D", "E">>, <<"/">> >>,
    << <<"C", "_", "M", "U", "T", "E">>, <<"M", "U", "T", "E">> >>,
    << <<"C", "_", "V", "O", "L", "_", "U", "P">>, <<"V", "O", "L", "+">> >>,
    << <<"C", "_", "V", "O", "L", "_", "D", "N">>, <<"V", "O", "L", "-">> >>,
    << <<"C", "_", "P", "R", "E", "V">>, <<"L", "A", "S", "T">> >>,
    << <<"C", "_", "N", "E", "X", "T">>, <<"N", "E", "X", "T">> >>,
    << <<"C", "_", "P", "P">>, <<"P", "L", "A", "Y">> >>,
    << <<"B", "T", "_", "C", "L", "R">>, <<"B", "T", " ", "C", "L", "E", "A", "R">> >>,
    << <<"B", "T", "_", "N", "X", "T">>, <<"B", "T", " ", "N", "E", "X", "T">> >>,
    << <<"B", "T", "_", "P", "R", "V">>, <<"B", "T", " ", "P", "R", "E", "V">> >>,
    << <<"R", "A", "(", "A", ")">>, <<"A:">> >>,
    << <<"R", "A", "(", "O", ")">>, <<"O:">> >>,
    << <<"R", "A", "(", "U", ")">>, <<"U:">> >>,
    << <<"R", "A", "(", "S", ")">>, <<"S", "Z">> >>,
    << <<"R", "A", "(", "N", "4", ")">>, <<"P", "O", "U", "N", "D">> >>,
    << <<"R", "A", "(", "N", "5", ")">>, <<"E", "U", "R", "O">> >>,
    << <<"L", "S", "(", "R", "A", "(", "N", "4", ")", ")">>, <<"Y", "E", "N">> >>,
    << <<"R", "A", "(", "F", "1", "8", ")">>, <<"E", "M", "A", "I", "L", "1">> >>,
    << <<"R", "A", "(", "F", "1", "9", ")">>, <<"E", "M", "A", "I", "L", "2">> >>,
    << <<"O", "U", "T", "_", "T", "O", "G">>, <<"O", "U", "T", " ", "T", "O", "G">> >> }

\* The keys of KEY_MAPPINGS, and the table as a function of them.
KEY_CODES == {p[1] : p \in KEY_MAPPINGS}
KEY_NAMES == [k \in KEY_CODES |-> (CHOOSE p \in KEY_MAPPINGS : p[1] = k)[2]]

\* KEY_MAPPINGS.get(key, key)
KeyGet(key) == IF key \in KEY_CODES THEN KEY_NAMES[key] ELSE key

----------------------------------------------------------------------------
(* parse_binding *)

AMP_TRANS == <<"&", "t", "r", "a", "n", "s">>
AMP_LT == <<"&", "l", "t", " ">>
AMP_MO == <<"&", "m", "o", " ">>
AMP_MT == <<"&", "m", "t", " ">>
AMP_KP == <<"&", "k", "p", " ">>
AMP_SYS_RESET == <<"&", "s", "y", "s", "_", "r", "e", "s", "e", "t">>
AMP_BOOTLOADER == <<"&", "b", "o", "o", "t", "l", "o", "a", "d", "e", "r">>
AMP_BT == <<"&", "b", "t", " ">>
AMP_OUT == <<"&", "o", "u", "t", " ">>
RESET == <<"R", "E", "S", "E", "T">>
BOOTLOAD == <<"B", "O", "O", "T", "L", "O", "A", "D">>

\* binding.split()[1] if len(binding.split()) > 1 else ""
SecondToken(b) == IF Len(Split(b)) > 1 THEN Split(b)[2] ELSE <<>>

\* The "&kp" branch: the whole text after "&kp ", stripped, looked up as one unit.
ParseKeyPress(b) == KeyGet(Strip(Slice(b, 4, Len(b))))

\* A mod-tap that shows the modifier instead of the key.
ParseModTapModifier(b) ==
  IF Len(Split(b)) >= 3 THEN KeyGet(Split(b)[2]) ELSE <<>>

\* The "&mt" branch: the third token, looked up.
ParseModTap(b) ==
  IF Len(Split(b)) >= 3 THEN KeyGet(Split(b)[3]) ELSE <<>>

RECURSIVE parse_binding(_)

\* A layer-tap that shows its last token when the key is missing.
ParseLayerTapLast(b) ==
  parse_binding(AMP_KP \o Split(b)[Len(Split(b))])

\* The "&lt" branch: parse_binding("&kp " + parts[2]).
ParseLayerTap(b) ==
  IF Len(Split(b)) >= 3 THEN parse_binding(AMP_KP \o Split(b)[3]) ELSE <<>>

parse_binding(raw) ==
  LET b == Strip(raw)
  IN  IF b = AMP_TRANS THEN <<>>
      ELSE IF StartsWith(b, AMP_LT) THEN ParseLayerTap(b)
      ELSE IF StartsWith(b, AMP_MO) THEN <<>>
      ELSE IF StartsWith(b, AMP_MT) THEN ParseModTap(b)
      ELSE IF StartsWith(b, AMP_KP) THEN ParseKeyPress(b)
      ELSE IF StartsWith(b, AMP_SYS_RESET) THEN RESET
      ELSE IF StartsWith(b, AMP_BOOTLOADER) THEN BOOTLOAD
      ELSE IF StartsWith(b, AMP_BT) THEN KeyGet(SecondToken(b))
      ELSE IF StartsWith(b, AMP_OUT) THEN KeyGet(SecondToken(b))
      ELSE <<>>

----------------------------------------------------------------------------
(* Each specification below drives one function of the program; the        *)
(* variables of the others stay at these values.                           *)

IdleFile ==
  /\ content = <<>> /\ layers = <<>> /\ li = 0 /\ new_content = <<>>
  /\ offset = 0 /\ pc = "idle" /\ run = 0 /\ firstOut = <<>> /\ edits = <<>>

IdleParse ==
  /\ binding = <<>> /\ label = <<>> /\ head = <<>> /\ args = <<>> /\ ppc = "idle"

IdlePad == rawLabel = <<>> /\ padded = <<>> /\ dpc = "idle"

IdleExtract ==
  /\ directives = <<>> /\ layerText = <<>> /\ all_bindings = <<>>
  /\ rows = <<>> /\ epc = "idle"

IdleBox == labels = <<>> /\ lines = <<>> /\ bpc = "idle"

\* All sequences over S of length 0..n.
SeqsUpTo(S, n) == UNION {[1..k -> S] : k \in 0..n}

----------------------------------------------------------------------------
(* SpecParse: parse_binding applied to one directive.  The directive is a  *)
(* head word followed by up to MaxArgs argument words, single-spaced,      *)
(* bare or surrounded by whitespace.                                       *)

HeadWords ==
  { <<"&", "t", "r", "a", "n", "s">>,
    <<"&", "l", "t">>,
    <<"&", "m", "o">>,
    <<"&", "m", "t">>,
    <<"&", "k", "p">>,
    <<"&", "s", "y", "s", "_", "r", "e", "s", "e", "t">>,
    <<"&", "b", "o", "o", "t", "l", "o", "a", "d", "e", "r">>,
    <<"&", "b", "t">>,
    <<"&", "o", "u", "t">>,
    <<"&", "n", "o", "n", "e">>,
    <<"&", "s", "k">> }

ArgWords ==
  { <<"L", "G", "U", "I">>,
    <<"N", "A", "V">>,
    <<"A">>,
    <<"R", "A", "(", "A", ")">>,
    <<"B", "T", "_", "C", "L", "R">> }

Directive(h, as) == Join(<<h>> \o as, <<" ">>)

InitParse ==
  /\ head \in HeadWords
  /\ args \in SeqsUpTo(ArgWords, MaxArgs)
  /\ binding \in {Directive(head, args), <<" ">> \o Directive(head, args) \o <<"\n">>}
  /\ label = <<>>
  /\ ppc = "start"
  /\ IdleFile /\ IdlePad /\ IdleExtract /\ IdleBox

Parse ==
  /\ ppc = "start"
  /\ label' = parse_binding(binding)
  /\ ppc' = "done"
  /\ UNCHANGED <<binding, head, args, fileVars, padVars, extractVars, boxVars>>

NextParse == Parse

SpecParse == InitParse /\ [][NextParse]_vars

HEAD_LT == <<"&", "l", "t">>
HEAD_MO == <<"&", "m", "o">>
HEAD_MT == <<"&", "m", "t">>
HEAD_KP == <<"&", "k", "p">>

\* The display name the table gives a key code, the key code itself if it gives none.
TableLabel(k) ==
  IF k \in {p[1] : p \in KEY_MAPPINGS}
  THEN CHOOSE v \in {p[2] : p \in KEY_MAPPINGS} : <<k, v>> \in KEY_MAPPINGS
  ELSE k

\* C5: "&mt M K", "&lt L K" and "&kp K" all resolve to the table's name for K,
\* or to K itself when the table has none; M and L never influence the label.
C5_TapLabelIsKeyLabel ==
  ppc = "done" =>
    /\ (head \in {HEAD_MT, HEAD_LT} /\ Len(args) = 2) => label = TableLabel(args[2])
    /\ (head = HEAD_KP /\ Len(args) = 1) => label = TableLabel(args[1])

\* C5 witness: a mod-tap of a compound key code has been resolved to its table name.
C5_Witness ==
  /\ ppc = "done"
  /\ head = HEAD_MT
  /\ args = << <<"L", "G", "U", "I">>, <<"R", "A", "(", "A", ")">> >>
  /\ label = <<"A:">>

\* The directive heads that start a recognized shape when arguments follow.
ArgShapes ==
  { HEAD_LT, HEAD_MO, HEAD_MT, HEAD_KP, <<"&", "b", "t">>, <<"&", "o", "u", "t">> }

\* The reset and bootloader shapes need no argument.
BareShapes == { AMP_SYS_RESET, AMP_BOOTLOADER }

Recognized ==
  \/ head = AMP_TRANS /\ args = <<>>
  \/ head \in ArgShapes /\ Len(args) >= 1
  \/ head \in BareShapes

\* C6: parse_binding returns a string for every directive, the empty one for "&trans",
\* for "&mo X", for "&lt"/"&mt" with fewer than 3 tokens, and for every
\* directive of no recognized shape.
C6_EmptyLabels ==
  ppc = "done" =>
       /\ DOMAIN label = 1..Len(label)
       /\ (head = AMP_TRANS /\ args = <<>>) => label = <<>>
       /\ (head = HEAD_MO /\ Len(args) >= 1) => label = <<>>
       /\ (head \in {HEAD_LT, HEAD_MT} /\ Len(args) < 2) => label = <<>>
       /\ ~Recognized => label = <<>>

\* C6 witness: a layer-tap with only two tokens has been resolved, to the empty label.
C6_Witness ==
  /\ ppc = "done"
  /\ head = HEAD_LT
  /\ Len(args) = 1
  /\ label = <<>>

----------------------------------------------------------------------------
(* pad_label, and SpecPad: pad_label applied to one label.                 *)

CELL_WIDTH == 9

\* A centering that puts the odd space on the right.
CenterOddRight(s, width) ==
  LET marg == width - Len(s)
      left == marg \div 2
  IN  IF marg <= 0 THEN s ELSE Rep(" ", left) \o s \o Rep(" ", marg - left)

\* str.center(width) with the default fill: of marg = width - len(s) spaces,
\* marg/2 + (marg & width & 1) go to the left and the rest to the right.
Center(s, width) ==
  LET marg == width - Len(s)
      left == (marg \div 2) + ((marg % 2) * (width % 2))
  IN  IF marg <= 0 THEN s ELSE Rep(" ", left) \o s \o Rep(" ", marg - left)

\* A label kept whole, whatever its length.
NoTruncate(l, width) == l

\* label[:width]
Truncate(l, width) == SubSeq(l, 1, IF Len(l) < width THEN Len(l) ELSE width)

pad_label(l) == Center(Truncate(l, CELL_WIDTH), CELL_WIDTH)

LabelChars == {"P", " "}

InitPad ==
  /\ rawLabel \in SeqsUpTo(LabelChars, MaxLabelLen)
  /\ padded = <<>>
  /\ dpc = "start"
  /\ IdleFile /\ IdleParse /\ IdleExtract /\ IdleBox

Pad ==
  /\ dpc = "start"
  /\ padded' = pad_label(rawLabel)
  /\ dpc' = "done"
  /\ UNCHANGED <<rawLabel, fileVars, parseVars, extractVars, boxVars>>

NextPad == Pad

SpecPad == InitPad /\ [][NextPad]_vars

\* ceil(n / 2) for n >= 0
CeilHalf(n) == (n + 1) \div 2

\* C7 as claimed: the cell is 9 characters, a long label is cut to its first 9,
\* and a shorter label of length n has floor((9-n)/2) spaces on its left and
\* ceil((9-n)/2) on its right.
C7_OddSpaceRight ==
  dpc = "done" =>
    /\ Len(padded) = 9
    /\ Len(rawLabel) > 9 => padded = SubSeq(rawLabel, 1, 9)
    /\ Len(rawLabel) <= 9 =>
         padded = Rep(" ", (9 - Len(rawLabel)) \div 2) \o rawLabel
                    \o Rep(" ", CeilHalf(9 - Len(rawLabel)))

\* C7 as amended: the cell is 9 characters, a long label is cut to its first 9,
\* and a shorter label of length n has ceil((9-n)/2) spaces on its left and
\* floor((9-n)/2) on its right: the odd space goes to the left.
C7_OddSpaceLeft ==
  dpc = "done" =>
    /\ Len(padded) = 9
    /\ Len(rawLabel) > 9 => padded = SubSeq(rawLabel, 1, 9)
    /\ Len(rawLabel) <= 9 =>
         padded = Rep(" ", CeilHalf(9 - Len(rawLabel))) \o rawLabel
                    \o Rep(" ", (9 - Len(rawLabel)) \div 2)

\* C7 witness: a two-character label has been padded, 4 spaces left and 3 right.
C7_Witness ==
  /\ dpc = "done"
  /\ rawLabel = <<"P", "P">>
  /\ padded = <<" ", " ", " ", " ", "P", "P", " ", " ", " ">>

----------------------------------------------------------------------------
(* extract_bindings_from_layer *)

BLOCK_END == <<"}", ";">>
BINDINGS == <<"b", "i", "n", "d", "i", "n", "g", "s">>
SLASHES == <<"/", "/">>
NL == <<"\n">>

\* The layer's text: from layer_start to the next "};", to the end if there is none.
LayerSection(text, layer_start) ==
  LET rest == Slice(text, layer_start, Len(text))
      layer_end == Find(rest, BLOCK_END, 0)
  IN  IF layer_end = -1 THEN rest ELSE Slice(rest, 0, layer_end)

\* Where group 1 of r"bindings\s*=\s*<([^>]+)>;" starts and ends, as <<from, to>>
\* for the slice s[from:to], if the regex matches at 0-based position p; <<>> if
\* it does not.  [^>]+ runs to the first ">", which ";" must follow.
BindingsGroupAt(s, p) ==
  IF ~MatchAt(s, BINDINGS, p) THEN <<>>
  ELSE LET q == SkipSpace(s, p + Len(BINDINGS))
       IN  IF ~MatchAt(s, <<"=">>, q) THEN <<>>
           ELSE LET r == SkipSpace(s, q + 1)
                IN  IF ~MatchAt(s, <<"<">>, r) THEN <<>>
                    ELSE LET t == Find(s, <<">">>, r + 1)
                         IN  IF t > r + 1 /\ MatchAt(s, <<";">>, t + 1)
                             THEN <<r + 1, t>>
                             ELSE <<>>

\* re.search of the bindings regex from 0-based position from: the group of
\* the leftmost match, <<>> if there is none.
RECURSIVE BindingsSearchFrom(_, _)
BindingsSearchFrom(s, from) ==
  LET p == Find(s, BINDINGS, from)
  IN  IF p = -1 THEN <<>>
      ELSE IF BindingsGroupAt(s, p) # <<>> THEN BindingsGroupAt(s, p)
      ELSE BindingsSearchFrom(s, p + 1)

BindingsSearch(s) == BindingsSearchFrom(s, 0)

\* text.split(sep) for a one-character sep.
SplitOn(text, sep) ==
  LET at == SelectSeq([i \in 1..Len(text) |-> i], LAMBDA i : text[i] = sep)
      from(k) == IF k = 1 THEN 1 ELSE at[k - 1] + 1
      to(k) == IF k = Len(at) + 1 THEN Len(text) ELSE at[k] - 1
  IN  [k \in 1..(Len(at) + 1) |-> SubSeq(text, from(k), to(k))]

\* One line without its "//" comment.
CutComment(line) ==
  LET c == Find(line, SLASHES, 0)
  IN  IF c = -1 THEN line ELSE Slice(line, 0, c)

\* re.sub(r"//.*$", "", text, flags=re.MULTILINE)
StripComments(text) ==
  LET ls == SplitOn(text, "\n")
  IN  Join([k \in 1..Len(ls) |-> CutComment(ls[k])], NL)

NonEmpty(part) == Strip(part) # <<>>

\* The directives of the bindings text: the "&"-separated parts, stripped, the
\* empty ones dropped, each with its "&" put back.
SplitBindings(text) ==
  LET parts == SelectSeq(SplitOn(text, "&"), NonEmpty)
  IN  [k \in 1..Len(parts) |-> <<"&">> \o Strip(parts[k])]

\* row_sizes
ROW_SIZES == <<10, 10, 12, 6>>

ParseAll(bs) == [k \in 1..Len(bs) |-> parse_binding(bs[k])]

\* The row loop with "<" for "<=": a row that uses up the last directive is
\* taken for an under-filled one.
RECURSIVE BuildRowsStrict(_, _, _)
BuildRowsStrict(all, i, k) ==
  IF k > Len(ROW_SIZES) THEN <<>>
  ELSE LET size == ROW_SIZES[k]
       IN  IF i + size < Len(all)
           THEN <<ParseAll(SubSeq(all, i + 1, i + size))>> \o BuildRowsStrict(all, i + size, k + 1)
           ELSE LET remaining == SubSeq(all, i + 1, Len(all))
                    row == ParseAll(remaining) \o Rep(<<>>, size - Len(remaining))
                IN  IF row # <<>> THEN <<row>> ELSE <<>>

\* The row loop from row k on, i directives being used up: full rows while the
\* directives last, then one padded row, then nothing.
RECURSIVE BuildRows(_, _, _)
BuildRows(all, i, k) ==
  IF k > Len(ROW_SIZES) THEN <<>>
  ELSE LET size == ROW_SIZES[k]
       IN  IF i + size <= Len(all)
           THEN <<ParseAll(SubSeq(all, i + 1, i + size))>> \o BuildRows(all, i + size, k + 1)
           ELSE LET remaining == SubSeq(all, i + 1, Len(all))
                    row == ParseAll(remaining) \o Rep(<<>>, size - Len(remaining))
                IN  IF row # <<>> THEN <<row>> ELSE <<>>

\* all_bindings of the layer at layer_start; <<>> when it has no bindings block.
AllBindings(text, layer_start) ==
  LET section == LayerSection(text, layer_start)
      g == BindingsSearch(section)
  IN  IF g = <<>> THEN <<>>
      ELSE SplitBindings(StripComments(Slice(section, g[1], g[2])))

extract_bindings_from_layer(text, layer_start) ==
  LET all == AllBindings(text, layer_start)
  IN  IF all = <<>> THEN <<>> ELSE BuildRows(all, 0, 1)

----------------------------------------------------------------------------
(* SpecExtract: extract_bindings_from_layer applied to one layer whose     *)
(* bindings block holds a given list of directives.                        *)

DirectivePool ==
  << <<"&", "k", "p", " ", "Q">>,
     <<"&", "m", "t", " ", "L", "G", "U", "I", " ", "A">>,
     <<"&", "t", "r", "a", "n", "s">>,
     <<"&", "l", "t", " ", "N", "A", "V", " ", "E", "S", "C">>,
     <<"&", "k", "p", " ", "R", "A", "(", "A", ")">>,
     <<"&", "m", "o", " ", "N", "A", "V">>,
     <<"&", "b", "t", " ", "B", "T", "_", "C", "L", "R">> >>

\* n directives: the pool, cyclically, from its entry number seed + 1.
DirectiveList(n, seed) ==
  [j \in 1..n |-> DirectivePool[((j + seed - 1) % Len(DirectivePool)) + 1]]

LAYER_OPEN ==
  <<"b", "_", "l", "a", "y", "e", "r", " ", "{", "\n">>
BINDINGS_OPEN ==
  <<" ", " ", "b", "i", "n", "d", "i", "n", "g", "s", " ", "=", " ", "<", "\n">>
BINDINGS_CLOSE == <<"\n", " ", " ", ">", ";", "\n">>
LAYER_CLOSE == <<"}", ";", "\n">>
NOTE_LINE == <<"/", "/", " ", "&", "k", "p", " ", "X", " ", "n", "o", "t", "e", "\n">>

\* The source text of a layer with these directives, sep between them, and a
\* comment line before them when noted.
LayerSource(ds, sep, noted) ==
  LAYER_OPEN \o BINDINGS_OPEN \o (IF noted THEN NOTE_LINE ELSE <<>>)
    \o Join(ds, sep) \o BINDINGS_CLOSE \o LAYER_CLOSE

InitExtract ==
  /\ \E n \in 0..MaxDirectives, seed \in 0..(Len(DirectivePool) - 1) :
       directives = DirectiveList(n, seed)
  /\ \E sep \in {<<" ">>, <<"\n", " ", " ", " ", " ">>}, noted \in BOOLEAN :
       layerText = LayerSource(directives, sep, noted)
  /\ all_bindings = <<>> /\ rows = <<>>
  /\ epc = "start"
  /\ IdleFile /\ IdleParse /\ IdlePad /\ IdleBox

Extract ==
  /\ epc = "start"
  /\ all_bindings' = AllBindings(layerText, 0)
  /\ rows' = extract_bindings_from_layer(layerText, 0)
  /\ epc' = "done"
  /\ UNCHANGED <<directives, layerText, fileVars, parseVars, padVars, boxVars>>

NextExtract == Extract

SpecExtract == InitExtract /\ [][NextExtract]_vars

\* The number of rows a list of n directives fills or starts.
RowsFor(n) == IF n < 10 THEN 1 ELSE IF n < 20 THEN 2 ELSE IF n < 32 THEN 3 ELSE 4

MinOf(a, b) == IF a < b THEN a ELSE b

\* C4: for n >= 1 directives, row i has [10,10,12,6][i] entries; the rows, one
\* after the other, hold parse_binding of the first min(n,38) directives in
\* source order and empty labels after them; and the rows end with the first
\* under-filled one.
C4_RowsInSourceOrder ==
  (epc = "done" /\ Len(directives) >= 1) =>
    LET n == Len(directives)
        flat == Concat(rows)
    IN  /\ Len(rows) = RowsFor(n)
        /\ \A i \in 1..Len(rows) : Len(rows[i]) = <<10, 10, 12, 6>>[i]
        /\ \A j \in 1..Len(flat) :
             flat[j] = IF j <= n THEN parse_binding(directives[j]) ELSE <<>>
        /\ Len(flat) >= MinOf(n, 38)

\* C4 witness: 25 directives have been extracted into three rows, the third
\* one holding 5 labels and 7 paddings.
C4_Witness ==
  /\ epc = "done"
  /\ Len(directives) = 25
  /\ Len(rows) = 3
  /\ rows[3][5] = <<"Q">>
  /\ rows[3][6] = <<>>

----------------------------------------------------------------------------
(* create_comment_box *)

BORDER_TOP ==
  <<"/", "/">> \o
  Rep(" ", 13) \o <<"tl">> \o
  Rep("hz", 11) \o <<"tj">> \o
  Rep("hz", 11) \o <<"tj">> \o
  Rep("hz", 11) \o <<"tj">> \o
  Rep("hz", 11) \o <<"tj">> \o
  Rep("hz", 11) \o <<"tr">> \o
  Rep(" ", 3) \o <<"tl">> \o
  Rep("hz", 11) \o <<"tj">> \o
  Rep("hz", 11) \o <<"tj">> \o
  Rep("hz", 11) \o <<"tj">> \o
  Rep("hz", 11) \o <<"tj">> \o
  Rep("hz", 11) \o <<"tr">>

BORDER_ROW1 ==
  <<"/", "/">> \o
  Rep(" ", 13) \o <<"lj">> \o
  Rep("hz", 11) \o <<"cr">> \o
  Rep("hz", 11) \o <<"cr">> \o
  Rep("hz", 11) \o <<"cr">> \o
  Rep("hz", 11) \o <<"cr">> \o
  Rep("hz", 11) \o <<"rj">> \o
  Rep(" ", 3) \o <<"lj">> \o
  Rep("hz", 11) \o <<"cr">> \o
  Rep("hz", 11) \o <<"cr">> \o
  Rep("hz", 11) \o <<"cr">> \o
  Rep("hz", 11) \o <<"cr">> \o
  Rep("hz", 11) \o <<"rj">>

BORDER_ROW2 ==
  <<"/", "/">> \o <<" ">> \o <<"tl">> \o
  Rep("hz", 11) \o <<"cr">> \o
  Rep("hz", 11) \o <<"cr">> \o
  Rep("hz", 11) \o <<"cr">> \o
  Rep("hz", 11) \o <<"cr">> \o
  Rep("hz", 11) \o <<"cr">> \o
  Rep("hz", 11) \o <<"rj">> \o
  Rep(" ", 3) \o <<"lj">> \o
  Rep("hz", 11) \o <<"cr">> \o
  Rep("hz", 11) \o <<"cr">> \o
  Rep("hz", 11) \o <<"cr">> \o
  Rep("hz", 11) \o <<"cr">> \o
  Rep("hz", 11) \o <<"cr">> \o
  Rep("hz", 11) \o <<"tr">>

BORDER_ROW3 ==
  <<"/", "/">> \o <<" ">> \o <<"bl">> \o
  Rep("hz", 11) \o <<"bj">> \o
  Rep("hz", 11) \o <<"bj">> \o
  Rep("hz", 11) \o <<"cr">> \o
  Rep("hz", 11) \o <<"cr">> \o
  Rep("hz", 11) \o <<"cr">> \o
  Rep("hz", 11) \o <<"rj">> \o
  Rep(" ", 3) \o <<"lj">> \o
  Rep("hz", 11) \o <<"cr">> \o
  Rep("hz", 11) \o <<"cr">> \o
  Rep("hz", 11) \o <<"cr">> \o
  Rep("hz", 11) \o <<"bj">> \o
  Rep("hz", 11) \o <<"bj">> \o
  Rep("hz", 11) \o <<"br">>

BORDER_THUMB ==
  <<"/", "/">> \o
  Rep(" ", 37) \o <<"bl">> \o
  Rep("hz", 11) \o <<"bj">> \o
  Rep("hz", 11) \o <<"bj">> \o
  Rep("hz", 11) \o <<"br">> \o
  Rep(" ", 3) \o <<"bl">> \o
  Rep("hz", 11) \o <<"bj">> \o
  Rep("hz", 11) \o <<"bj">> \o
  Rep("hz", 11) \o <<"br">>

PREFIX_MAIN == <<"/", "/">> \o Rep(" ", 13)

PREFIX_ROW3 == <<"/", "/">> \o <<" ">>

PREFIX_THUMB == <<"/", "/">> \o Rep(" ", 37)

GAP == Rep(" ", 3)

\* The labels of the left half of a row that should hold `full` labels, `half`
\* in each half.
LeftKeys(row, half, full) ==
  IF Len(row) >= full THEN SubSeq(row, 1, half)
  ELSE IF Len(row) >= half THEN SubSeq(row, 1, half) ELSE row

\* The labels of the right half.
RightKeys(row, half, full) ==
  IF Len(row) >= full THEN SubSeq(row, half + 1, full)
  ELSE IF Len(row) > half THEN SubSeq(row, half + 1, Len(row)) ELSE <<>>

\* (keys + [""] * half)[:half]
FillKeys(keys, half) == SubSeq(keys \o Rep(<<>>, half), 1, half)

\* "".join(f"| {pad_label(k)} " for k in keys), "|" being U+2503.
CellsText(keys) ==
  Concat([k \in 1..Len(keys) |-> <<"vt", " ">> \o pad_label(keys[k]) \o <<" ">>])

\* One label line: the prefix, the left cells, the gap, the right cells.
LabelLine(prefix, row, half, full) ==
  prefix \o CellsText(FillKeys(LeftKeys(row, half, full), half)) \o <<"vt">>
    \o GAP \o CellsText(FillKeys(RightKeys(row, half, full), half)) \o <<"vt">>

create_comment_box(ls) ==
  IF Len(ls) < 4 THEN <<>>
  ELSE << BORDER_TOP,
          LabelLine(PREFIX_MAIN, ls[1], 5, 10),
          BORDER_ROW1,
          LabelLine(PREFIX_MAIN, ls[2], 5, 10),
          BORDER_ROW2,
          LabelLine(PREFIX_ROW3, ls[3], 6, 12),
          BORDER_ROW3,
          LabelLine(PREFIX_THUMB, ls[4], 3, 6),
          BORDER_THUMB >>

----------------------------------------------------------------------------
(* SpecBox: create_comment_box applied to rows of any number and length.   *)

LabelPool ==
  << <<>>,
     <<"Q">>,
     <<"S", "H", "I", "F", "T">>,
     <<"B", "T", " ", "C", "L", "E", "A", "R">>,
     <<"L", "S", "(", "R", "A", "(", "F", "1", "8", ")", ")">> >>

RowLens == {2, 5, 10, 13}

\* A row of n labels: the pool, cyclically, from its entry number seed + 1.
LabelRow(n, seed) == [j \in 1..n |-> LabelPool[((j + seed - 1) % Len(LabelPool)) + 1]]

InitBox ==
  /\ \E nr \in 3..MaxRows, seed \in 0..1 :
       \E lens \in [1..nr -> RowLens] :
         labels = [i \in 1..nr |-> LabelRow(lens[i], seed + i)]
  /\ lines = <<>>
  /\ bpc = "start"
  /\ IdleFile /\ IdleParse /\ IdlePad /\ IdleExtract

Render ==
  /\ bpc = "start"
  /\ lines' = create_comment_box(labels)
  /\ bpc' = "done"
  /\ UNCHANGED <<labels, fileVars, parseVars, padVars, extractVars>>

NextBox == Render

SpecBox == InitBox /\ [][NextBox]_vars

\* The corners and junctions of the border lines.
Junctions == {"tl", "tj", "tr", "lj", "cr", "rj", "bl", "bj", "br"}

\* The columns of a line that hold the cell separator U+2503.
BarColumns(line) == {c \in 1..Len(line) : line[c] = "vt"}

\* Every cell separator of lines[i] has a junction or corner in the same
\* column of the border lines above and below.
BarsMeetBorders(i) ==
  \A c \in BarColumns(lines[i]) :
    /\ c <= Len(lines[i - 1]) /\ lines[i - 1][c] \in Junctions
    /\ c <= Len(lines[i + 1]) /\ lines[i + 1][c] \in Junctions

\* lines[i] renders half + half cells of 9 characters between single spaces,
\* the halves 3 blank columns apart.
HalvesOf(i, half) ==
  LET bars == SortedSeq(BarColumns(lines[i]))
  IN  /\ Len(bars) = 2 * (half + 1)
      /\ \A k \in 1..(2 * half + 1) :
           bars[k + 1] - bars[k] = IF k = half + 1 THEN 4 ELSE 12
      /\ \A c \in (bars[half + 1] + 1)..(bars[half + 2] - 1) : lines[i][c] = " "
      /\ bars[2 * (half + 1)] = Len(lines[i])

----------------------------------------------------------------------------
(* update_keymap_file *)

UNDER_LAYER == <<"_", "l", "a", "y", "e", "r">>

\* The 0-based start of the run of \w characters that ends just before 0-based
\* position k.
RECURSIVE WordRunStart(_, _)
WordRunStart(text, k) ==
  IF k > 0 /\ IsWord(text[k]) THEN WordRunStart(text, k - 1) ELSE k

\* match.start() of every match of r"(\w+_layer)\s*\{", in order.  "_layer"
\* must end its run of \w characters, "{" following after any whitespace, and
\* \w+ takes the run's characters before it, at least one.
LayerStarts(text) ==
  LET K == {k \in 1..Len(text) :
              /\ MatchAt(text, UNDER_LAYER, k)
              /\ IsWord(text[k])
              /\ MatchAt(text, <<"{">>, SkipSpace(text, k + Len(UNDER_LAYER)))}
  IN  SortedSeq({WordRunStart(text, k) : k \in K})

\* comment_start_pattern and comment_end_pattern without their r"//\s+".
MARK_TOP == <<"tl">> \o Rep("hz", 11) \o <<"tj">> \o Rep("hz", 11) \o <<"tj">>
MARK_BOTTOM == <<"bl">> \o Rep("hz", 11) \o <<"bj">> \o Rep("hz", 11) \o <<"bj">>

\* re.search(r"//\s+" + mark, s): <<start, end>> of the leftmost match, <<>> if
\* there is none.
RECURSIVE MarkerSearchFrom(_, _, _)
MarkerSearchFrom(s, mark, from) ==
  LET p == Find(s, SLASHES, from)
      q == SkipSpace(s, p + 2)
  IN  IF p = -1 THEN <<>>
      ELSE IF q > p + 2 /\ MatchAt(s, mark, q) THEN <<p, q + Len(mark)>>
      ELSE MarkerSearchFrom(s, mark, p + 1)

MarkerSearch(s, mark) == MarkerSearchFrom(s, mark, 0)

\* The leading spaces and tabs of a line.
RECURSIVE IndentLen(_, _)
IndentLen(line, j) ==
  IF j < Len(line) /\ line[j + 1] \in {" ", "\t"} THEN IndentLen(line, j + 1) ELSE j

Indent(line) == SubSeq(line, 1, IndentLen(line, 0))

\* s.find("\n", from), len(s) if there is none.
LineEnd(s, from) ==
  LET e == Find(s, NL, from)
  IN  IF e = -1 THEN Len(s) ELSE e

\* A stripped line that is a comment with a box character of the old layout.
IsLayoutComment(line) ==
  /\ StartsWith(line, SLASHES)
  /\ \/ Contains(line, "vt") \/ Contains(line, "bl")
     \/ Contains(line, "bj") \/ Contains(line, "br")

\* The search for the end of the old block that stops at the first line after
\* the bottom border's.
ExtendNot(s, search_pos) == search_pos

\* The while loop: from search_pos, skip the lines that are layout comments.
RECURSIVE Extend(_, _)
Extend(s, search_pos) ==
  IF search_pos < Len(s)
  THEN LET next_line_end == LineEnd(s, search_pos)
       IN  IF IsLayoutComment(Strip(Slice(s, search_pos, next_line_end)))
           THEN Extend(s, next_line_end + 1)
           ELSE search_pos
  ELSE search_pos

\* An old block found in every layer: where there is no diagram, an empty one
\* after the layer's first line.
OldBlockOrInsert(section) ==
  LET comment_start == MarkerSearch(section, MARK_TOP)
      comment_end == MarkerSearch(section, MARK_BOTTOM)
  IN  IF comment_start = <<>> \/ comment_end = <<>>
      THEN [ line_start_pos |-> LineEnd(section, 0) + 1,
             search_pos |-> LineEnd(section, 0) + 1,
             indent |-> <<>> ]
      ELSE LET nl == RFind(section, NL, comment_start[1])
               line_start_pos == IF nl = -1 THEN 0 ELSE nl + 1
           IN  [ line_start_pos |-> line_start_pos,
                 search_pos |-> Extend(section, LineEnd(section, comment_end[2]) + 1),
                 indent |-> Indent(Slice(section, line_start_pos, comment_start[1])) ]

\* The old comment block of a layer's text: where its first line starts, where
\* the line after its last one starts, and its indentation; <<>> when the text
\* lacks a top or a bottom border.
OldBlock(section) ==
  LET comment_start == MarkerSearch(section, MARK_TOP)
      comment_end == MarkerSearch(section, MARK_BOTTOM)
  IN  IF comment_start = <<>> \/ comment_end = <<>> THEN <<>>
      ELSE LET nl == RFind(section, NL, comment_start[1])
               line_start_pos == IF nl = -1 THEN 0 ELSE nl + 1
           IN  [ line_start_pos |-> line_start_pos,
                 search_pos |-> Extend(section, LineEnd(section, comment_end[2]) + 1),
                 indent |-> Indent(Slice(section, line_start_pos, comment_start[1])) ]

\* "\n".join(indent + line for line in new_comments) + "\n"
CommentBlock(indent, new_comments) ==
  Join([k \in 1..Len(new_comments) |-> indent \o new_comments[k]], NL) \o NL

\* A slice bound as Python reads it: negative from the end, clamped to 0..n.
Bound(i, n) == IF i < 0 THEN (IF i + n < 0 THEN 0 ELSE i + n) ELSE (IF i > n THEN n ELSE i)

\* s[:b] and s[a:] of Python for any integers a, b.
Upto(s, b) == SubSeq(s, 1, Bound(b, Len(s)))
From(s, a) == SubSeq(s, Bound(a, Len(s)) + 1, Len(s))

\* content.find("};", layer_start)
LayerEnd(text, layer_start) == Find(text, BLOCK_END, layer_start)


\* The layer the loop is at, and what the loop body computes for it.
layer_start == layers[li]
layer_section == Slice(content, layer_start, LayerEnd(content, layer_start))
bindings == extract_bindings_from_layer(content, layer_start)
old_block == OldBlock(layer_section)
old_comments_start == layer_start + old_block.line_start_pos
old_comments_end == layer_start + old_block.search_pos
new_comment_block == CommentBlock(old_block.indent, create_comment_box(bindings))

InLoop == pc = "loop" /\ li <= Len(layers)

\* What the loop did with one layer; kept for the properties, the program
\* keeps no such record.
Skipped == [kind |-> "skip", start |-> 0, end |-> 0, block |-> <<>>]

NextLayer(edit) ==
  /\ li' = li + 1
  /\ edits' = Append(edits, edit)
  /\ UNCHANGED <<content, layers, pc, run, firstOut>>

\* Read the file and find the layers.
Start ==
  /\ pc = "read"
  /\ layers' = LayerStarts(content)
  /\ new_content' = content
  /\ offset' = 0
  /\ li' = 1
  /\ pc' = "loop"
  /\ UNCHANGED <<content, run, firstOut, edits>>
  /\ UNCHANGED <<parseVars, padVars, extractVars, boxVars>>

\* No "};" after the layer's name: continue.
SkipNoEnd ==
  /\ InLoop
  /\ LayerEnd(content, layer_start) = -1
  /\ NextLayer(Skipped)
  /\ UNCHANGED <<new_content, offset>>
  /\ UNCHANGED <<parseVars, padVars, extractVars, boxVars>>

\* No bindings: continue.
SkipNoBindings ==
  /\ InLoop
  /\ LayerEnd(content, layer_start) # -1
  /\ bindings = <<>>
  /\ NextLayer(Skipped)
  /\ UNCHANGED <<new_content, offset>>
  /\ UNCHANGED <<parseVars, padVars, extractVars, boxVars>>

\* No top border or no bottom border in the layer: nothing to replace.
SkipNoDiagram ==
  /\ InLoop
  /\ LayerEnd(content, layer_start) # -1
  /\ bindings # <<>>
  /\ old_block = <<>>
  /\ NextLayer(Skipped)
  /\ UNCHANGED <<new_content, offset>>
  /\ UNCHANGED <<parseVars, padVars, extractVars, boxVars>>

\* Replace the old comment block by the new one.
Splice ==
  /\ InLoop
  /\ LayerEnd(content, layer_start) # -1
  /\ old_block # <<>>
  /\ bindings # <<>>
  /\ LET block == new_comment_block
         from == old_comments_start
         to == old_comments_end
     IN  /\ new_content' = Upto(new_content, from + offset) \o block
                             \o From(new_content, to + offset)
         /\ offset' = offset + (Len(block) - (to - from))
         /\ NextLayer([kind |-> "splice", start |-> from, end |-> to, block |-> block])
  /\ UNCHANGED <<parseVars, padVars, extractVars, boxVars>>

\* Write the updated content.
Write ==
  /\ pc = "loop"
  /\ li > Len(layers)
  /\ pc' = "done"
  /\ UNCHANGED <<content, layers, li, new_content, offset, run, firstOut, edits>>
  /\ UNCHANGED <<parseVars, padVars, extractVars, boxVars>>

\* The tool run again on the file it wrote.
Rerun ==
  /\ pc = "done"
  /\ run = 1
  /\ firstOut' = new_content
  /\ content' = new_content
  /\ run' = 2
  /\ pc' = "read"
  /\ layers' = <<>> /\ li' = 0 /\ offset' = 0 /\ edits' = <<>>
  /\ UNCHANGED new_content
  /\ UNCHANGED <<parseVars, padVars, extractVars, boxVars>>

----------------------------------------------------------------------------
(* The documents of Spec.  A document is "/ {", then layers, then "};".  A  *)
(* layer is its name and "{", comment lines, a bindings block and "};".    *)
(* The comment lines of all layers are given as one list of items: "T" a   *)
(* top border line, "B" a bottom border line, "V" a line of cells, "N" a   *)
(* comment without box characters, and "L" ends the layer and opens the    *)
(* next one.  Odd lines of a layer are indented by two spaces, even ones   *)
(* by a tab.                                                               *)

Items == {"T", "B", "V", "N", "L"}

\* "full": every layer has 33 directives.  "short": the first layer has 5.
\* "bare": the first layer has no bindings block.  "cut": the file ends
\* after the last layer's bindings block.
Variants == {"full", "short", "bare", "cut"}

FULL_COUNT == 33
SHORT_COUNT == 5

DOC_OPEN == <<"/", " ", "{", "\n">>
LAYER_NAMES == <<"a", "b", "c", "d", "e", "f", "g", "h">>
NOTE_TEXT == <<"n", "o", "t", "e">>
CELLS_TEXT == <<"vt", " ", "Q", " ", "vt">>

ItemIndent(k) == IF k % 2 = 1 THEN <<" ", " ">> ELSE <<"\t">>

ItemLine(item, k) ==
  ItemIndent(k) \o SLASHES \o <<" ">>
    \o (CASE item = "T" -> MARK_TOP
          [] item = "B" -> MARK_BOTTOM \o <<"br">>
          [] item = "V" -> CELLS_TEXT
          [] OTHER -> NOTE_TEXT)
    \o NL

ItemLines(items) == Concat([k \in 1..Len(items) |-> ItemLine(items[k], k)])

BindingsBlock(ds) == BINDINGS_OPEN \o Join(ds, <<" ">>) \o BINDINGS_CLOSE

\* The directives of layer k of a document of the given variant.
LayerDirectives(k, variant) ==
  DirectiveList(IF variant = "short" /\ k = 1 THEN SHORT_COUNT ELSE FULL_COUNT, k)

LayerText(k, items, variant, last) ==
  <<LAYER_NAMES[k]>> \o UNDER_LAYER \o <<" ", "{", "\n">>
    \o ItemLines(items)
    \o (IF variant = "bare" /\ k = 1 THEN <<>> ELSE BindingsBlock(LayerDirectives(k, variant)))
    \o (IF variant = "cut" /\ last THEN <<>> ELSE LAYER_CLOSE)

Document(items, variant) ==
  LET per == SplitOn(items, "L")
  IN  DOC_OPEN
        \o Concat([k \in 1..Len(per) |-> LayerText(k, per[k], variant, k = Len(per))])
        \o (IF variant = "cut" THEN <<>> ELSE LAYER_CLOSE)

Init ==
  /\ \E items \in SeqsUpTo(Items, MaxItems), variant \in Variants :
       content = Document(items, variant)
  /\ layers = <<>> /\ li = 0 /\ new_content = <<>> /\ offset = 0
  /\ pc = "read" /\ run = 1 /\ firstOut = <<>> /\ edits = <<>>
  /\ IdleParse /\ IdlePad /\ IdleExtract /\ IdleBox

Next ==
  \/ Start
  \/ SkipNoEnd
  \/ SkipNoBindings
  \/ SkipNoDiagram
  \/ Splice
  \/ Write

\* One run of the tool on a document.
Spec == Init /\ [][Next]_vars

NextTwice == Next \/ Rerun

\* Two runs: the tool, then the tool again on its output.
SpecTwice == Init /\ [][NextTwice]_vars

----------------------------------------------------------------------------
(* Properties of update_keymap_file.  They read the input (content) and    *)
(* the output (new_content) of a finished run; a layer of the output is    *)
(* found by its name, which the documents give to one layer only.          *)

Done == pc = "done"

\* The text of layer k of a document from its name up to the next "};", <<>>
\* when the name or the "};" is missing.
SectionOf(text, k) ==
  LET at == Find(text, <<LAYER_NAMES[k]>> \o UNDER_LAYER, 0)
  IN  IF at = -1 \/ LayerEnd(text, at) = -1 THEN <<>>
      ELSE Slice(text, at, LayerEnd(text, at))

\* The layers of the input that end with "};".
Closed == {k \in 1..Len(layers) : LayerEnd(content, layers[k]) # -1}

TopOf(k) == MarkerSearch(SectionOf(content, k), MARK_TOP)
BottomOf(k) == MarkerSearch(SectionOf(content, k), MARK_BOTTOM)
RowsOf(k) == extract_bindings_from_layer(content, layers[k])

\* Layer k has a diagram: a top border and a bottom border.
HasDiagram(k) == TopOf(k) # <<>> /\ BottomOf(k) # <<>>

\* Layer k is unchanged in the output.
Untouched(k) == SectionOf(new_content, k) = SectionOf(content, k)

\* The 0-based start of the line of s that holds 0-based position p.
LineStartOf(s, p) == IF RFind(s, NL, p) = -1 THEN 0 ELSE RFind(s, NL, p) + 1

\* The 0-based start of the line after the one that holds position p, len(s)
\* if it is the last.
NextLineOf(s, p) == IF LineEnd(s, p) = Len(s) THEN Len(s) ELSE LineEnd(s, p) + 1

\* The line of s that starts at 0-based position p, without its line break.
LineAt(s, p) == Slice(s, p, LineEnd(s, p))

\* The new block of layer k: the lines of the diagram of its rows, each after
\* the leading whitespace of the top border's line and each ended by a line
\* break; one line break when the diagram has no lines.
ExpectedBlock(k) ==
  LET s == SectionOf(content, k)
      first == LineAt(s, LineStartOf(s, TopOf(k)[1]))
      box == create_comment_box(RowsOf(k))
  IN  IF box = <<>> THEN NL
      ELSE Concat([i \in 1..Len(box) |-> Indent(first) \o box[i] \o NL])

\* Layer k has been replaced: the loop spliced it, and its new block stands in
\* the layer in the output.
Regenerated(k) ==
  /\ edits[k].kind = "splice"
  /\ Find(SectionOf(new_content, k), ExpectedBlock(k), 0) # -1

BoxComment(line) ==
  /\ StartsWith(Strip(line), SLASHES)
  /\ \E i \in 1..Len(line) : line[i] \in {"vt", "bl", "bj", "br"}

\* Where the comment lines with box characters that start at p and follow
\* one another end: the start of the first line that is not one.
RECURSIVE PastBoxComments(_, _)
PastBoxComments(s, p) ==
  IF p < Len(s) /\ BoxComment(LineAt(s, p)) THEN PastBoxComments(s, NextLineOf(s, p)) ELSE p

\* Layer k has a diagram block that the loop replaces: bindings, a top border
\* line, and its first bottom border on a later line.
HasBlock(k) ==
  /\ k \in Closed
  /\ RowsOf(k) # <<>>
  /\ HasDiagram(k)
  /\ NextLineOf(SectionOf(content, k), TopOf(k)[1]) <= BottomOf(k)[1]

\* The lines of s as the code splits a block: s.split("\n") without the empty
\* piece after the last line break.
LinesOf(s) == LET parts == SplitOn(s, "\n") IN SubSeq(parts, 1, Len(parts) - 1)

\* C10: the replaced span runs from the start of the top border's line through
\* the last of the box comment lines that follow the bottom border's line, so
\* the layer in the output is what was before the span, the new block, and
\* what was after the span; and every line of the new block starts with the
\* leading whitespace of the top border's line, followed by the "//" of the
\* diagram line.
C10_WholeBlockReplaced ==
  Done =>
    \A k \in 1..Len(layers) :
      HasBlock(k) =>
        LET s == SectionOf(content, k)
            from == LineStartOf(s, TopOf(k)[1])
            to == PastBoxComments(s, NextLineOf(s, BottomOf(k)[1]))
            ws == Indent(LineAt(s, from))
        IN  /\ edits[k].kind = "splice"
            /\ edits[k].start = layers[k] + from
            /\ edits[k].end = layers[k] + to
            /\ SectionOf(new_content, k)
                 = Slice(s, 0, from) \o edits[k].block \o Slice(s, to, Len(s))
            /\ edits[k].block = ExpectedBlock(k)
            /\ Len(RowsOf(k)) >= 4 =>
                 \A i \in 1..Len(LinesOf(edits[k].block)) :
                   StartsWith(LinesOf(edits[k].block)[i], ws \o SLASHES)

\* C10 witness: an indented block of a top and a bottom border followed by a
\* line of cells has been replaced, and the line of cells is gone.
C10_Witness ==
  /\ Done
  /\ HasBlock(1) /\ Len(RowsOf(1)) = 4
  /\ LET s == SectionOf(content, 1)
     IN  /\ Indent(LineAt(s, LineStartOf(s, TopOf(1)[1]))) # <<>>
         /\ BoxComment(LineAt(s, NextLineOf(s, BottomOf(1)[1])))
         /\ Find(s, CELLS_TEXT, 0) # -1
  /\ edits[1].kind = "splice"
  /\ Find(SectionOf(new_content, 1), CELLS_TEXT, 0) = -1

\* C2 as claimed: a layer whose bindings give fewer than 4 rows keeps its
\* diagram block; the layer is unchanged in the output.
C2_ShortLayerKeepsDiagram ==
  Done =>
    \A k \in Closed :
      (RowsOf(k) # <<>> /\ Len(RowsOf(k)) < 4) => Untouched(k)

\* The positions of the input that lie in a replaced span [start, end).
InSpan(i) ==
  \E e \in 1..Len(edits) :
    edits[e].kind = "splice" /\ edits[e].start <= i /\ i < edits[e].end

\* The spliced layers, in source order.
Spliced == SelectSeq([e \in 1..Len(edits) |-> e], LAMBDA e : edits[e].kind = "splice")

\* The text of the input from 0-based position lo to hi, without the
\* characters that lie in a replaced span.
Kept(lo, hi) ==
  LET at == SelectSeq([n \in 1..(IF hi > lo THEN hi - lo ELSE 0) |-> lo + n - 1],
                      LAMBDA i : ~InSpan(i))
  IN  [n \in 1..Len(at) |-> content[at[n] + 1]]

\* The input with the spans of the spliced layers from the n-th on replaced,
\* starting at 0-based position p of the input.
RECURSIVE ReplacedFrom(_, _)
ReplacedFrom(n, p) ==
  IF n > Len(Spliced) THEN Kept(p, Len(content))
  ELSE LET e == edits[Spliced[n]]
       IN  Kept(p, e.start) \o e.block \o ReplacedFrom(n + 1, IF e.start > p THEN e.start ELSE p)

\* C8 as claimed: the output is the input with each replaced span replaced by
\* its layer's new block, every character outside the spans kept, in order.
C8_SpansReplaced == Done => new_content = ReplacedFrom(1, 0)

\* C1 as claimed: a second run on the output of the first changes nothing.
C1_SecondRunChangesNothing == (Done /\ run = 2) => new_content = firstOut

====
